---- MODULE Spec2Model ----
(***************************************************************************)
(* The bang query parser of seiri-core (src/seiri-core/src/bangs/parser.rs) *)
(* as a state machine: one frame per activation of parse_token_stream, one *)
(* stream per slice iterator, one action per step of the function body.    *)
(***************************************************************************)
EXTENDS Integers, Sequences, FiniteSets, TLC

\* ------------------------------------------------------------------ bounds
\* Longest unconstrained token sequence (before the final InputEnd).
MaxLen == 3
\* Longest chain of simple bangs joined by operators.
MaxBangs == 3

\* ------------------------------------------------------------------ tokens
Tok(k, v) == [k |-> k, v |-> v]
BangPrefix == Tok("BangPrefix", "")
BangIdentifier(s) == Tok("BangIdentifier", s)
ArgumentBegin == Tok("ArgumentBegin", "")
ArgumentEnd == Tok("ArgumentEnd", "")
Argument(s) == Tok("Argument", s)
LogicalOperator(c) == Tok("LogicalOperator", c)
MatchAll == Tok("MatchAll", "")
InputEnd == Tok("InputEnd", "")
\* What Iterator::next returns at the end of the slice.
None == Tok("None", "")

\* ----------------------------------------------------------------- results
Ok(v) == [ok |-> TRUE, val |-> v]
Err(e) == [ok |-> FALSE, val |-> e]
NoResult == Err(<<"unset">>)
LexerUnexpectedEndOfInput == <<"LexerUnexpectedEndOfInput">>
ParserUnexpectedToken(t) == <<"ParserUnexpectedToken", t>>
ParserUnknownBang(s) == <<"ParserUnknownBang", s>>
ParserInvalidInput(s) == <<"ParserInvalidInput", s>>

\* The Bang values the parser builds.
All == <<"All">>
Grouping(b) == <<"Grouping", b>>

\* ------------------------------------------------------ identifier resolution
Mnemonics ==
  {"t", "T", "q", "Q", "al", "AL", "alar", "ALAR", "ar", "AR", "f", "brlt",
   "brgt", "cwlt", "cwgt", "chlt", "chgt", "c", "mb", "dup", "!"}

as_bang_type(s) ==
  CASE s = "t" -> [tag |-> "TitleSearch", text |-> ""]
    [] s = "T" -> [tag |-> "TItleSearchExact", text |-> ""]
    [] s = "q" -> [tag |-> "FullTextSearch", text |-> ""]
    [] s = "Q" -> [tag |-> "FullTextSearchExact", text |-> ""]
    [] s = "al" -> [tag |-> "AlbumTitle", text |-> ""]
    [] s = "AL" -> [tag |-> "AlbumTitleExact", text |-> ""]
    [] s = "alar" -> [tag |-> "AlbumArtists", text |-> ""]
    [] s = "ALAR" -> [tag |-> "AlbumArtistsExact", text |-> ""]
    [] s = "ar" -> [tag |-> "Artist", text |-> ""]
    [] s = "AR" -> [tag |-> "ArtistExact", text |-> ""]
    [] s = "f" -> [tag |-> "Format", text |-> ""]
    [] s = "brlt" -> [tag |-> "BitrateLessThan", text |-> ""]
    [] s = "brgt" -> [tag |-> "BitrateGreaterThan", text |-> ""]
    [] s = "cwlt" -> [tag |-> "CoverArtWidthLessThan", text |-> ""]
    [] s = "cwgt" -> [tag |-> "CoverArtWidthGreaterThan", text |-> ""]
    [] s = "chlt" -> [tag |-> "CoverArtHeightLessThan", text |-> ""]
    [] s = "chgt" -> [tag |-> "CoverArtHeightGreaterThan", text |-> ""]
    [] s = "c" -> [tag |-> "HasCoverArt", text |-> ""]
    [] s = "mb" -> [tag |-> "HasMusicbrainzId", text |-> ""]
    [] s = "dup" -> [tag |-> "Duplicates", text |-> ""]
    [] s = "!" -> [tag |-> "Grouping", text |-> ""]
    [] OTHER -> [tag |-> "Unknown", text |-> s]

\* --------------------------------------------------------- argument coercion
\* <String as FromStr>::from_str never fails and keeps the text.
FromStrString(s) == Ok(s)

\* <TrackFileType as FromStr>::from_str lives in the track module; the text
\* forms it accepts and the enumeration values they denote.
TrackFileTypeOf(s) ==
  CASE s = "flac" -> Ok("TrackFileType::FLAC")
    [] s = "mp3" -> Ok("TrackFileType::MP3")
    [] OTHER -> Err(<<>>)

\* argument.parse::<T>() for the target type T of the producer closure.
ParseAs(producer, s) ==
  IF producer = "Format" THEN TrackFileTypeOf(s) ELSE FromStrString(s)

parse_bang_raw_text(producer, argument) ==
  IF argument.k = "Argument"
  THEN Ok(<<producer, argument.v>>)
  ELSE Err(LexerUnexpectedEndOfInput)

parse_bang(producer, argument) ==
  IF argument.k = "Argument"
  THEN LET parsed == ParseAs(producer, argument.v)
       IN  IF parsed.ok
           THEN Ok(<<producer, parsed.val>>)
           ELSE Err(ParserInvalidInput(argument.v))
  ELSE Err(LexerUnexpectedEndOfInput)

\* extract_argument on a stream s = [toks, pos]: tokens.take(3).nth(1) reads
\* two tokens and unwraps the second, tokens.next() reads a third if any.
Min(a, b) == IF a < b THEN a ELSE b
Remaining(s) == Len(s.toks) - s.pos

extract_argument_peeks(s) ==
  [panic |-> Remaining(s) < 2,
   argument |-> IF Remaining(s) < 2 THEN None ELSE s.toks[s.pos + 2],
   pos |-> s.pos]

extract_argument(s) ==
  [panic |-> Remaining(s) < 2,
   argument |-> IF Remaining(s) < 2 THEN None ELSE s.toks[s.pos + 2],
   pos |-> s.pos + Min(3, Remaining(s))]

\* ------------------------------------------------------------ group scanning
\* The match on the token inside the loop of take_until_braces_balanced.
ScanCounterFlat(counter, token) ==
  IF token.k = "ArgumentEnd" THEN counter - 1 ELSE counter

ScanCounter(counter, token) ==
  CASE token.k = "ArgumentBegin" -> counter + 1
    [] token.k = "ArgumentEnd" -> counter - 1
    [] OTHER -> counter

\* The two pushes of one loop iteration.
ScanPush(group, counter, token) ==
  LET kept == IF counter # 0 THEN Append(group, token) ELSE group
  IN  IF counter = 0 THEN Append(kept, InputEnd) ELSE kept

\* --------------------------------------------------------------- combinators
CombineSwapped(operator, lhs, rhs) ==
  IF operator = "|" THEN <<"LogicalAnd", lhs, rhs>> ELSE <<"LogicalOr", rhs, lhs>>

Combine(operator, lhs, rhs) ==
  IF operator = "|" THEN <<"LogicalOr", lhs, rhs>> ELSE <<"LogicalAnd", lhs, rhs>>

\* -------------------------------------------------------------------- state
VARIABLES
  tokens,   \* the token slice handed to the outermost parse_token_stream
  streams,  \* the live slice iterators: [toks, pos], pos tokens already read
  stack,    \* the activations of parse_token_stream, innermost last
  result,   \* what the outermost call returned
  status,   \* "running", "done" or "panicked" ("idle": no parse under way)
  reads,    \* per input token, the iterators that have returned it or its clone
  pstack,   \* the activations of process (seiri-watcher), innermost last
  out,      \* the outcome messages process has printed
  added,    \* how often database::add_track was called
  wd,       \* where the watchdog thread is ("idle": not started)
  tx,       \* the channel whose sender the watchdog holds
  chans,    \* how many channels have been created
  rxAlive,  \* the channels whose receiver a living watcher thread holds
  mail,     \* the channels with an Exit message waiting
  folder    \* whether the music folder is reachable

parserVars == <<tokens, streams, stack, result, status, reads>>
processVars == <<pstack, out, added>>
watchdogVars == <<wd, tx, chans, rxAlive, mail, folder>>
vars == <<parserVars, processVars, watchdogVars>>

\* No call of process and no watchdog thread.
ProcessIdle == pstack = <<>> /\ out = <<>> /\ added = 0
WatchdogIdle ==
  /\ wd = [pc |-> "idle", phase |-> "", cause |-> ""]
  /\ tx = 0 /\ chans = 0 /\ rxAlive = {} /\ mail = {} /\ folder = TRUE

\* An activation of parse_token_stream on stream sid, entered at position
\* start; token j of the stream is (a clone of) input token base + j.
Frame(sid, start, base) ==
  [pc |-> "open", sid |-> sid, start |-> start, base |-> base, producer |-> "",
   lhs |-> NoResult, operator |-> "", counter |-> 0, group |-> <<>>,
   val |-> NoResult]

Top == stack[Len(stack)]
Cur == streams[Top.sid]
\* tokens.next() on the current stream: the token, and the stream afterwards.
Peek == IF Cur.pos < Len(Cur.toks) THEN Cur.toks[Cur.pos + 1] ELSE None
Advanced == [Cur EXCEPT !.pos = Min(Cur.pos + 1, Len(Cur.toks))]
SetTop(f) == [stack EXCEPT ![Len(stack)] = f]

\* The log of reads after the current iterator returns its next n tokens (as
\* many of them as it has); the InputEnd a group is padded with is no input.
Origins(n) ==
  {Top.base + j : j \in {i \in (Cur.pos + 1)..Min(Cur.pos + n, Len(Cur.toks)) :
                           Top.sid = 1 \/ i < Len(Cur.toks)}}
ReadsAfter(n) ==
  [k \in DOMAIN reads |-> IF k \in Origins(n) THEN Append(reads[k], Top.sid) ELSE reads[k]]
Returning(r) == SetTop([Top EXCEPT !.pc = "ret", !.val = r])

\* ------------------------------------------------------------------- inputs
Idents == {"t", "!", "c", "zz"}
Texts == {"foo", "flac"}
Operators == {"&", "|", "^"}
Alphabet ==
  {BangPrefix, ArgumentBegin, ArgumentEnd, MatchAll, InputEnd}
    \cup {BangIdentifier(s) : s \in Idents}
    \cup {Argument(s) : s \in Texts}
    \cup {LogicalOperator(c) : c \in Operators}

SeqsUpTo(S, n) == UNION {[1..k -> S] : k \in 0..n}

\* Every token sequence of up to MaxLen tokens, closed by InputEnd.
FreeInputs == {s \o <<InputEnd>> : s \in SeqsUpTo(Alphabet, MaxLen)}

\* A bang head followed by any three tokens in the place of the triple.
TripleInputs ==
  {<<BangPrefix, BangIdentifier(m), a, b, c, InputEnd>> :
     m \in {"t", "f", "brlt", "zz"}, a \in Alphabet, b \in Alphabet, c \in Alphabet}

Bang1(m, s) ==
  <<BangPrefix, BangIdentifier(m), ArgumentBegin, Argument(s), ArgumentEnd>>
Bang0(m) == <<BangPrefix, BangIdentifier(m)>>
SimpleBangs == {Bang1("t", "foo"), Bang1("f", "flac"), Bang0("c"), Bang1("brlt", "320")}

RECURSIVE ChainsOf(_, _)
ChainsOf(S, n) ==
  IF n = 1
  THEN S
  ELSE {a \o <<LogicalOperator(o)>> \o r :
          a \in S, o \in {"&", "|"}, r \in ChainsOf(S, n - 1)}

\* Well-formed chains of up to MaxBangs simple bangs.
ChainInputs ==
  {q \o <<InputEnd>> : q \in UNION {ChainsOf(SimpleBangs, k) : k \in 1..MaxBangs}}

Wrap(q) == <<BangPrefix, BangIdentifier("!"), ArgumentBegin>> \o q \o <<ArgumentEnd>>
Pairs(S) == S \cup ChainsOf(S, 2)
InnerBangs == {Bang1("t", "foo"), Bang0("c")}
Groups1 == {Wrap(q) : q \in Pairs(InnerBangs)}
Groups2 == {Wrap(q) : q \in Pairs(InnerBangs \cup Groups1)}

\* Well-formed queries with a grouping (nested up to twice) alone, first or last.
GroupInputs ==
  {g \o <<InputEnd>> : g \in Groups2}
    \cup {g \o <<LogicalOperator(o)>> \o b \o <<InputEnd>> :
            g \in Groups2, o \in {"&", "|"}, b \in InnerBangs}
    \cup {b \o <<LogicalOperator(o)>> \o g \o <<InputEnd>> :
            g \in Groups2, o \in {"&", "|"}, b \in InnerBangs}

\* MatchAll as a right-hand side and as the head of a group, before any tokens.
MatchAllInputs ==
  {<<BangPrefix, BangIdentifier("c"), LogicalOperator("&"), MatchAll>> \o j
     \o <<InputEnd>> : j \in SeqsUpTo(Alphabet, MaxLen - 1)}
    \cup {<<BangPrefix, BangIdentifier("!"), ArgumentBegin, MatchAll>> \o j
            \o <<ArgumentEnd, InputEnd>> : j \in SeqsUpTo(Alphabet, MaxLen - 1)}

\* Every recognized mnemonic, without and with an argument.
MnemonicInputs ==
  {Bang0(m) \o <<InputEnd>> : m \in Mnemonics}
    \cup {Bang1(m, "foo") \o <<InputEnd>> : m \in Mnemonics}

\* A grouping bang followed by up to MaxLen tokens that may or may not close it.
ScanTokens ==
  {ArgumentBegin, ArgumentEnd, BangPrefix, BangIdentifier("c"), Argument("foo"),
   MatchAll, InputEnd}
ScanInputs ==
  {<<BangPrefix, BangIdentifier("!"), ArgumentBegin>> \o s \o <<InputEnd>> :
     s \in SeqsUpTo(ScanTokens, MaxLen)}

\* A grouping whose sub-query fails, before every kind of continuation token.
FailingBangs == {Bang0("zz"), Bang1("f", "foo"), Bang1("brlt", "320"), <<BangPrefix>>}
FailingGroupInputs ==
  {Wrap(b) \o t \o <<InputEnd>> :
     b \in FailingBangs, t \in {<<>>} \cup {<<a>> : a \in Alphabet}}

Inputs ==
  FreeInputs \cup TripleInputs \cup ChainInputs \cup GroupInputs \cup MatchAllInputs
    \cup MnemonicInputs \cup ScanInputs \cup FailingGroupInputs

\* A parse about to start on one of the token sequences in S.
Called(S) ==
  /\ tokens \in S
  /\ streams = <<[toks |-> tokens, pos |-> 0]>>
  /\ stack = <<Frame(1, 0, 0)>>
  /\ result = NoResult
  /\ status = "running"
  /\ reads = [k \in 1..Len(tokens) |-> <<>>]
  /\ ProcessIdle
  /\ WatchdogIdle

Init == Called(Inputs)

\* ------------------------------------------------------------------ actions
\* What the match on the opening token decides: go on, or return a result.
OpeningOutcomeNoShortCircuit(t) ==
  CASE t.k = "BangPrefix" -> [pc |-> "ident", val |-> NoResult]
    [] t.k = "MatchAll" -> [pc |-> "cont", val |-> Ok(All)]
    [] t.k = "None" -> [pc |-> "ret", val |-> Err(LexerUnexpectedEndOfInput)]
    [] OTHER -> [pc |-> "ret", val |-> Err(ParserUnexpectedToken(t))]

OpeningOutcome(t) ==
  CASE t.k = "BangPrefix" -> [pc |-> "ident", val |-> NoResult]
    [] t.k = "MatchAll" -> [pc |-> "ret", val |-> Ok(All)]
    [] t.k = "None" -> [pc |-> "ret", val |-> Err(LexerUnexpectedEndOfInput)]
    [] OTHER -> [pc |-> "ret", val |-> Err(ParserUnexpectedToken(t))]

\* let opening_token = tokens.next().cloned(); match opening_token { ... }
Opening ==
  /\ status = "running"
  /\ Top.pc = "open"
  /\ LET o == OpeningOutcome(Peek)
     IN  stack' = SetTop([Top EXCEPT !.pc = o.pc, !.val = o.val,
                                     !.lhs = IF o.pc = "cont" THEN o.val ELSE @])
  /\ streams' = [streams EXCEPT ![Top.sid] = Advanced]
  /\ reads' = ReadsAfter(1)
  /\ UNCHANGED <<tokens, result, status, processVars, watchdogVars>>

DispatchBuildsEveryTag(bt) ==
  CASE bt.tag = "TitleSearch" -> [pc |-> "extract", producer |-> "TitleSearch", lhs |-> NoResult]
    [] bt.tag = "Grouping" -> [pc |-> "take", producer |-> "", lhs |-> NoResult]
    [] bt.tag = "Format" -> [pc |-> "extract", producer |-> "Format", lhs |-> NoResult]
    [] bt.tag = "Unknown" -> [pc |-> "cont", producer |-> "", lhs |-> Err(ParserUnknownBang(bt.text))]
    [] bt.tag \in {"HasCoverArt", "HasMusicbrainzId", "Duplicates"} ->
         [pc |-> "cont", producer |-> "", lhs |-> Ok(<<bt.tag>>)]
    [] OTHER -> [pc |-> "extract", producer |-> bt.tag, lhs |-> NoResult]

\* The arm of match bang_ident.as_bang_type() taken for a resolved tag.
Dispatch(bt) ==
  CASE bt.tag = "TitleSearch" -> [pc |-> "extract", producer |-> "TitleSearch", lhs |-> NoResult]
    [] bt.tag = "Grouping" -> [pc |-> "take", producer |-> "", lhs |-> NoResult]
    [] bt.tag = "Format" -> [pc |-> "extract", producer |-> "Format", lhs |-> NoResult]
    [] bt.tag = "Unknown" -> [pc |-> "cont", producer |-> "", lhs |-> Err(ParserUnknownBang(bt.text))]
    [] OTHER -> [pc |-> "cont", producer |-> "", lhs |-> Ok(All)]

\* let bang_ident = tokens.next().cloned(); let lhs = if let Some(BangIdentifier..
Identifier ==
  /\ status = "running"
  /\ Top.pc = "ident"
  /\ stack' =
       IF Peek.k = "BangIdentifier"
       THEN LET d == Dispatch(as_bang_type(Peek.v))
            IN  SetTop([Top EXCEPT !.pc = d.pc, !.producer = d.producer, !.lhs = d.lhs])
       ELSE Returning(Err(LexerUnexpectedEndOfInput))
  /\ streams' = [streams EXCEPT ![Top.sid] = Advanced]
  /\ reads' = ReadsAfter(1)
  /\ UNCHANGED <<tokens, result, status, processVars, watchdogVars>>

\* parse_bang(|x| Bang::..(x), extract_argument(tokens))
ExtractArgument ==
  /\ status = "running"
  /\ Top.pc = "extract"
  /\ LET e == extract_argument(Cur)
     IN  IF e.panic
         THEN /\ status' = "panicked"
              /\ UNCHANGED <<stack, streams>>
         ELSE /\ stack' = SetTop([Top EXCEPT !.pc = "cont",
                                             !.lhs = parse_bang(Top.producer, e.argument)])
              /\ streams' = [streams EXCEPT ![Top.sid].pos = e.pos]
              /\ UNCHANGED status
  /\ reads' = ReadsAfter(3)
  /\ UNCHANGED <<tokens, result, processVars, watchdogVars>>

\* take_until_braces_balanced: if let Some(&Token::ArgumentBegin) = tokens.next()
TakeBegin ==
  /\ status = "running"
  /\ Top.pc = "take"
  /\ IF Peek.k = "ArgumentBegin"
     THEN /\ stack' = SetTop([Top EXCEPT !.pc = "scan", !.counter = 1, !.group = <<>>])
          /\ UNCHANGED status
     ELSE /\ status' = "panicked"
          /\ UNCHANGED stack
  /\ streams' = [streams EXCEPT ![Top.sid] = Advanced]
  /\ reads' = ReadsAfter(1)
  /\ UNCHANGED <<tokens, result, processVars, watchdogVars>>

\* The loop ends without a balance: Err(Error::LexerUnexpectedEndOfInput),
\* which the ? in parse_token_stream returns at once.
ScanEndSpins(frame) == frame

ScanEndAsMatchAll(frame) == [frame EXCEPT !.pc = "ret", !.val = Ok(All)]

ScanEnd(frame) == [frame EXCEPT !.pc = "ret", !.val = Err(LexerUnexpectedEndOfInput)]

\* One iteration of while let Some(token) = tokens.next().cloned(); on balance,
\* the recursive parse of the group starts on an iterator of its own.
TakeScan ==
  /\ status = "running"
  /\ Top.pc = "scan"
  /\ IF Peek.k = "None"
     THEN /\ stack' = SetTop(ScanEnd(Top))
          /\ streams' = [streams EXCEPT ![Top.sid] = Advanced]
     ELSE LET counter == ScanCounter(Top.counter, Peek)
              group == ScanPush(Top.group, counter, Peek)
          IN  IF counter = 0
              THEN /\ stack' = Append(SetTop([Top EXCEPT !.pc = "group", !.counter = counter,
                                                         !.group = group]),
                                      Frame(Len(streams) + 1, 0,
                                            Top.base + Top.start + 3))
                   /\ streams' = Append([streams EXCEPT ![Top.sid] = Advanced],
                                        [toks |-> group, pos |-> 0])
              ELSE /\ stack' = SetTop([Top EXCEPT !.counter = counter, !.group = group])
                   /\ streams' = [streams EXCEPT ![Top.sid] = Advanced]
  /\ reads' = ReadsAfter(1)
  /\ UNCHANGED <<tokens, result, status, processVars, watchdogVars>>

\* What the match on the token after the left-hand bang decides.
ContinuationOutcome(lhs, t) ==
  CASE t.k = "InputEnd" -> [pc |-> "ret", val |-> lhs]
    [] t.k = "LogicalOperator" /\ t.v \in {"|", "&"} ->
         IF lhs.ok THEN [pc |-> "rhs", val |-> NoResult] ELSE [pc |-> "ret", val |-> lhs]
    [] t.k = "LogicalOperator" /\ t.v \notin {"|", "&"} ->
         [pc |-> "ret", val |-> Err(ParserUnknownBang(t.v))]
    [] t.k = "None" -> [pc |-> "ret", val |-> Err(LexerUnexpectedEndOfInput)]
    [] OTHER -> [pc |-> "ret", val |-> Err(ParserUnexpectedToken(t))]

\* match tokens.next().cloned() { ... }: a combinator calls parse_token_stream
\* again on the same iterator.
Continuation ==
  /\ status = "running"
  /\ Top.pc = "cont"
  /\ LET o == ContinuationOutcome(Top.lhs, Peek)
         f == [Top EXCEPT !.pc = o.pc, !.val = o.val, !.operator = Peek.v]
     IN  stack' = IF o.pc = "rhs"
                  THEN Append(SetTop(f), Frame(Top.sid, Advanced.pos, Top.base))
                  ELSE SetTop(f)
  /\ streams' = [streams EXCEPT ![Top.sid] = Advanced]
  /\ reads' = ReadsAfter(1)
  /\ UNCHANGED <<tokens, result, status, processVars, watchdogVars>>

ResumeGroupReturns(caller, r) ==
  CASE caller.pc = "rhs" ->
         [caller EXCEPT !.pc = "ret",
                        !.val = IF r.ok
                                THEN Ok(Combine(caller.operator, caller.lhs.val, r.val))
                                ELSE r]
    [] caller.pc = "group" ->
         [caller EXCEPT !.pc = "ret", !.val = IF r.ok THEN Ok(Grouping(r.val)) ELSE r]

ResumeSwallowsGroupError(caller, r) ==
  CASE caller.pc = "rhs" ->
         [caller EXCEPT !.pc = "ret",
                        !.val = IF r.ok
                                THEN Ok(Combine(caller.operator, caller.lhs.val, r.val))
                                ELSE r]
    [] caller.pc = "group" ->
         [caller EXCEPT !.pc = "cont",
                        !.lhs = IF r.ok THEN Ok(Grouping(r.val)) ELSE Ok(Grouping(All))]

\* What the caller does with the result r of the call it was waiting for.
Resume(caller, r) ==
  CASE caller.pc = "rhs" ->
         [caller EXCEPT !.pc = "ret",
                        !.val = IF r.ok
                                THEN Ok(Combine(caller.operator, caller.lhs.val, r.val))
                                ELSE r]
    [] caller.pc = "group" ->
         IF r.ok
         THEN [caller EXCEPT !.pc = "cont", !.lhs = Ok(Grouping(r.val))]
         ELSE [caller EXCEPT !.pc = "ret", !.val = r]

\* A nested parse_token_stream returns to its caller; a group's iterator and
\* vector are dropped with it.
Return ==
  /\ status = "running"
  /\ Len(stack) > 1
  /\ Top.pc = "ret"
  /\ LET caller == stack[Len(stack) - 1]
     IN  /\ stack' = [SubSeq(stack, 1, Len(stack) - 1) EXCEPT
                        ![Len(stack) - 1] = Resume(caller, Top.val)]
         /\ streams' = IF caller.pc = "group"
                       THEN SubSeq(streams, 1, Len(streams) - 1)
                       ELSE streams
  /\ UNCHANGED <<tokens, result, status, reads, processVars, watchdogVars>>

\* The outermost parse_token_stream returns.
Finish ==
  /\ status = "running"
  /\ Len(stack) = 1
  /\ Top.pc = "ret"
  /\ result' = Top.val
  /\ status' = "done"
  /\ stack' = <<>>
  /\ UNCHANGED <<tokens, streams, reads, processVars, watchdogVars>>

Next ==
  \/ Opening
  \/ Identifier
  \/ ExtractArgument
  \/ TakeBegin
  \/ TakeScan
  \/ Continuation
  \/ Return
  \/ Finish

Spec == Init /\ [][Next]_vars

\* The parser is sequential code: whenever it can take a step it takes one.
\* Termination is checked on the inputs without the six-token sequences of
\* TripleInputs, which hold no grouping and no combinator, and with the nested
\* groupings alone, not chained to a further bang.
TerminationInputs ==
  FreeInputs \cup ChainInputs \cup {g \o <<InputEnd>> : g \in Groups2}
    \cup MatchAllInputs \cup MnemonicInputs \cup ScanInputs \cup FailingGroupInputs
FairInit == Called(TerminationInputs)
FairSpec == FairInit /\ [][Next]_vars /\ WF_vars(Next)

\* ------------------------------------------------- reference reading of a query
\* The tree a well-formed query denotes, read off the grammar
\*   Query := Bang (LogicalOperator Query)?
\* by splitting at the first operator outside all delimiters.
Balance(toks, a, b) ==
  Cardinality({i \in a..b : toks[i].k = "ArgumentBegin"})
    - Cardinality({i \in a..b : toks[i].k = "ArgumentEnd"})

SetMin(S) == CHOOSE x \in S : \A y \in S : x <= y

TopOperators(q) ==
  {i \in 1..Len(q) : q[i].k = "LogicalOperator" /\ Balance(q, 1, i) = 0}

Node(c, l, r) ==
  CASE c = "&" -> <<"LogicalAnd", l, r>>
    [] c = "|" -> <<"LogicalOr", l, r>>

RECURSIVE RefQuery(_)
RefBang(b) ==
  CASE b = Bang0("c") -> <<"All">>
    [] Len(b) = 5 /\ b[2] = BangIdentifier("t") -> <<"TitleSearch", b[4].v>>
    [] Len(b) = 5 /\ b[2] = BangIdentifier("f") /\ b[4].v = "flac" ->
         <<"Format", "TrackFileType::FLAC">>
    [] Len(b) > 4 /\ b[2] = BangIdentifier("!") ->
         <<"Grouping", RefQuery(SubSeq(b, 4, Len(b) - 1))>>

RefQuery(q) ==
  IF TopOperators(q) = {}
  THEN RefBang(q)
  ELSE LET i == SetMin(TopOperators(q))
       IN  Node(q[i].v, RefBang(SubSeq(q, 1, i - 1)), RefQuery(SubSeq(q, i + 1, Len(q))))

\* The input without its closing InputEnd.
Body == SubSeq(tokens, 1, Len(tokens) - 1)
Stopped == status \in {"done", "panicked"}
HasShape(n, m) ==
  /\ Len(tokens) >= n
  /\ tokens[1] = BangPrefix
  /\ tokens[2] = BangIdentifier(m)

\* ------------------------------------------------------------------- claims
\* C1: on every token sequence that ends in InputEnd the parser returns a
\* Bang or a typed error; it never panics.
C1_NeverPanics ==
  tokens[Len(tokens)] = InputEnd => status # "panicked"

\* C2: every syntactically valid query not starting with MatchAll (bangs of
\* the mnemonic table, each with its triple when the predicate takes a value,
\* joined by & or |, closed by InputEnd) parses to a Bang, and the cursor
\* ends exactly past InputEnd.
C2_ValidQueryParses ==
  (Stopped /\ tokens \in ChainInputs) =>
    /\ status = "done"
    /\ result.ok
    /\ streams[1].pos = Len(tokens)

\* C3: a chain P1 op1 P2 ... Pn InputEnd of n >= 2 predicates that each parse
\* yields the right-nested tree op1(P1, op2(P2, ... Pn)), & building
\* LogicalAnd and | building LogicalOr, operands in source order.
GoodBangs == {Bang1("t", "foo"), Bang1("f", "flac"), Bang0("c")}
GoodChains ==
  {q \o <<InputEnd>> : q \in UNION {ChainsOf(GoodBangs, k) : k \in 2..MaxBangs}}

C3_RightNested ==
  (Stopped /\ tokens \in GoodChains) =>
    /\ status = "done"
    /\ result = Ok(RefQuery(Body))

C3_Witness ==
  /\ status = "done"
  /\ tokens = Bang1("t", "foo") \o <<LogicalOperator("|")>> \o Bang1("f", "flac")
                \o <<LogicalOperator("|")>> \o Bang0("c") \o <<InputEnd>>
  /\ result = Ok(<<"LogicalOr", <<"TitleSearch", "foo">>,
                   <<"LogicalOr", <<"Format", "TrackFileType::FLAC">>, <<"All">>>>>>)

\* C4: the sub-stream handed to the recursive parse of a grouping is exactly
\* the tokens strictly between the outer ArgumentBegin and the ArgumentEnd
\* matching it, followed by one InputEnd; the scan stops where the depth first
\* returns to zero and never earlier (as long as it scans, the delimiters read
\* so far have not balanced); an inner A & B gives Grouping(LogicalAnd(A, B)).
\* The ArgumentEnd matching the ArgumentBegin at index open, if there is one.
Closes(toks, open) ==
  {j \in (open + 1)..Len(toks) :
     /\ Balance(toks, open, j) = 0
     /\ \A i \in open..(j - 1) : Balance(toks, open, i) > 0}

\* The stream frame i of the stack was called on, and the index there of the
\* ArgumentBegin that follows its BangPrefix and BangIdentifier.
GroupAloneInputs == {g \o <<InputEnd>> : g \in Groups2}
StreamOf(i) == streams[stack[i].sid].toks
OpenOf(i) == stack[i].start + 3

C4_GroupSubStream ==
  /\ \A i \in 1..(Len(stack) - 1) :
       (stack[i].pc = "group" /\ stack[i + 1].pc = "open") =>
         /\ Closes(StreamOf(i), OpenOf(i)) # {}
         /\ LET close == SetMin(Closes(StreamOf(i), OpenOf(i)))
            IN  /\ stack[i].group =
                     SubSeq(StreamOf(i), OpenOf(i) + 1, close - 1) \o <<InputEnd>>
                /\ streams[stack[i].sid].pos = close
         /\ streams[stack[i + 1].sid] = [toks |-> stack[i].group, pos |-> 0]
         /\ stack[i + 1].sid # stack[i].sid
  /\ \A i \in 1..Len(stack) :
       stack[i].pc = "scan" =>
         Balance(StreamOf(i), OpenOf(i), streams[stack[i].sid].pos) > 0
  /\ (Stopped /\ tokens \in GroupAloneInputs) =>
       /\ status = "done"
       /\ result = Ok(<<"Grouping", RefQuery(SubSeq(tokens, 4, Len(tokens) - 2))>>)

\* A group that holds another grouping bang and a predicate with an argument.
C4_Witness ==
  /\ Len(stack) = 3
  /\ stack[1].pc = "group"
  /\ stack[2].pc = "group"
  /\ tokens = Wrap(Wrap(Bang1("t", "foo") \o <<LogicalOperator("&")>> \o Bang0("c"))
                     \o <<LogicalOperator("|")>> \o Bang1("t", "foo"))
                \o <<InputEnd>>
  /\ streams[3].toks = Bang1("t", "foo") \o <<LogicalOperator("&")>> \o Bang0("c")
                         \o <<InputEnd>>

\* C5: after a grouping bang the outer parse resumes at the token right after
\* the matching ArgumentEnd, so !!{A | B} & C parses to
\* LogicalAnd(Grouping(LogicalOr(A, B)), C).
GroupFirstInputs ==
  {g \o <<LogicalOperator(o)>> \o b \o <<InputEnd>> :
     g \in Groups2, o \in {"&", "|"}, b \in InnerBangs}

C5_GroupingOverridesChaining ==
  /\ \A i \in 1..Len(stack) :
       (stack[i].pc = "cont" /\ stack[i].lhs.ok /\ stack[i].lhs.val[1] = "Grouping") =>
         /\ Closes(StreamOf(i), OpenOf(i)) # {}
         /\ i = Len(stack)
         /\ streams[stack[i].sid].pos = SetMin(Closes(StreamOf(i), OpenOf(i)))
  /\ (Stopped /\ tokens \in GroupFirstInputs) =>
       /\ status = "done"
       /\ LET close == SetMin(Closes(tokens, 3))
          IN  result = Ok(Node(tokens[close + 1].v,
                               <<"Grouping", RefQuery(SubSeq(tokens, 4, close - 1))>>,
                               RefBang(SubSeq(tokens, close + 2, Len(tokens) - 1))))

C5_Witness ==
  /\ status = "done"
  /\ tokens = Wrap(Bang1("t", "foo") \o <<LogicalOperator("|")>> \o Bang0("c"))
                \o <<LogicalOperator("&")>> \o Bang1("t", "foo") \o <<InputEnd>>
  /\ result = Ok(<<"LogicalAnd",
                   <<"Grouping", <<"LogicalOr", <<"TitleSearch", "foo">>, <<"All">>>>>>,
                   <<"TitleSearch", "foo">>>>)

\* C6: whenever the token after BangPrefix is BangIdentifier(x) with x not in
\* the mnemonic table, the parse returns ParserUnknownBang(x), whatever tokens
\* follow the identifier.
C6_UnknownBangReported ==
  (/\ Len(tokens) >= 2
   /\ tokens[1] = BangPrefix
   /\ tokens[2].k = "BangIdentifier"
   /\ tokens[2].v \notin Mnemonics
   /\ Stopped) =>
    /\ status = "done"
    /\ ~result.ok
    /\ result.val[1] = "ParserUnknownBang"
    /\ result.val[2] = tokens[2].v

\* C7: a numeric-bound mnemonic followed by ArgumentBegin, Argument(s),
\* ArgumentEnd with s not numeric text returns ParserInvalidInput(s).
NumericMnemonics == {"brlt", "brgt", "cwlt", "cwgt", "chlt", "chgt"}
NonNumericTexts == {"foo", "flac"}

C7_NumericInvalidInput ==
  (/\ Len(tokens) = 6
   /\ tokens[1] = BangPrefix
   /\ tokens[2].k = "BangIdentifier"
   /\ tokens[2].v \in NumericMnemonics
   /\ tokens[3] = ArgumentBegin
   /\ tokens[4].k = "Argument"
   /\ tokens[4].v \in NonNumericTexts
   /\ tokens[5] = ArgumentEnd
   /\ Stopped) =>
    /\ status = "done"
    /\ ~result.ok
    /\ result.val[1] = "ParserInvalidInput"
    /\ result.val[2] = tokens[4].v

\* C8: for t and f the parse yields the predicate only if the three tokens
\* after the identifier are exactly ArgumentBegin, Argument, ArgumentEnd; if
\* any of the three positions holds another token the result is the
\* unexpected-end-of-input error.
ExactTriple ==
  /\ tokens[3] = ArgumentBegin
  /\ tokens[4].k = "Argument"
  /\ tokens[5] = ArgumentEnd

C8_TripleRequired ==
  (/\ Len(tokens) = 6
   /\ HasShape(6, "t") \/ HasShape(6, "f")
   /\ Stopped) =>
    /\ status = "done"
    /\ result.ok => ExactTriple
    /\ ~ExactTriple => (~result.ok /\ result.val[1] = "LexerUnexpectedEndOfInput")

\* C9: t or f, then ArgumentBegin, Argument(s), ArgumentEnd, InputEnd: the
\* result is TitleSearch(s) for any s, Format(v) when s is the text form of
\* the TrackFileType v, and ParserInvalidInput(s) when the coercion fails.
C9_Coercion ==
  \A s \in Texts :
    /\ (tokens = Bang1("t", s) \o <<InputEnd>> /\ Stopped) =>
         /\ status = "done"
         /\ result = Ok(<<"TitleSearch", s>>)
    /\ (tokens = Bang1("f", s) \o <<InputEnd>> /\ Stopped) =>
         /\ status = "done"
         /\ result = IF TrackFileTypeOf(s).ok
                     THEN Ok(<<"Format", TrackFileTypeOf(s).val>>)
                     ELSE Err(<<"ParserInvalidInput", s>>)

C9_Witness ==
  /\ status = "done"
  /\ tokens = Bang1("f", "flac") \o <<InputEnd>>
  /\ result = Ok(<<"Format", "TrackFileType::FLAC">>)

\* C10: an activation whose first token is MatchAll returns Bang::All after
\* reading exactly that one token, whatever follows, also as a right-hand
\* side and as the head of a grouping's sub-stream.
OpensWithMatchAll(i) ==
  /\ stack[i].start < Len(StreamOf(i))
  /\ StreamOf(i)[stack[i].start + 1] = MatchAll

C10_MatchAllShortCircuits ==
  /\ \A i \in 1..Len(stack) :
       OpensWithMatchAll(i) =>
         /\ stack[i].pc \in {"open", "ret"}
         /\ stack[i].pc = "ret" =>
              /\ stack[i].val.ok
              /\ stack[i].val.val = <<"All">>
              /\ i = Len(stack)
              /\ streams[stack[i].sid].pos = stack[i].start + 1
  /\ (tokens[1] = MatchAll /\ Stopped) =>
       /\ status = "done"
       /\ result = Ok(<<"All">>)
       /\ streams[1].pos = 1

\* MatchAll heads a group's sub-stream and returns with tokens still unread.
C10_Witness ==
  /\ Len(stack) = 2
  /\ stack[1].pc = "group"
  /\ stack[2].pc = "ret"
  /\ stack[2].val = Ok(<<"All">>)
  /\ OpensWithMatchAll(2)
  /\ streams[2].pos = 1
  /\ Len(streams[2].toks) >= 3

\* ------------------------------------------------------------------ C11
\* A token sequence as the lexer ends it: one InputEnd, in the last place.
EndsOnce(toks) == \A k \in 1..Len(toks) : (toks[k] = InputEnd) <=> (k = Len(toks))

\* A call that returns Ok has read its stream to the end, or stopped right
\* after a MatchAll.
OnlyMatchAllDiscards ==
  (status = "running" /\ Top.pc = "ret" /\ Top.val.ok /\ EndsOnce(tokens)) =>
    \/ Cur.pos = Len(Cur.toks)
    \/ Cur.toks[Cur.pos] = MatchAll

\* One step of a failure on its way out: a failed left-hand bang makes the
\* continuation step return a failure whatever token it reads, a failed nested
\* call makes its caller return a failure, and the outermost failure is the
\* result of the parse.
FailureStep ==
  /\ (status = "running" /\ Top.pc = "cont" /\ ~Top.lhs.ok) =>
       /\ Len(stack') = Len(stack)
       /\ stack'[Len(stack')].pc = "ret"
       /\ ~stack'[Len(stack')].val.ok
  /\ (status = "running" /\ Top.pc = "ret" /\ ~Top.val.ok /\ Len(stack) > 1) =>
       /\ Len(stack') = Len(stack) - 1
       /\ stack'[Len(stack')].pc = "ret"
       /\ ~stack'[Len(stack')].val.ok
  /\ (status = "running" /\ Top.pc = "ret" /\ ~Top.val.ok /\ Len(stack) = 1) =>
       /\ status' = "done"
       /\ ~result'.ok

Unmatched(toks, open) == \A j \in open..Len(toks) : Balance(toks, open, j) > 0

\* Frame i parses a grouping bang whose ArgumentBegin nothing closes.
UnmatchedGrouping(i) ==
  /\ stack[i].start + 3 <= Len(StreamOf(i))
  /\ StreamOf(i)[stack[i].start + 1] = BangPrefix
  /\ StreamOf(i)[stack[i].start + 2] = BangIdentifier("!")
  /\ StreamOf(i)[stack[i].start + 3] = ArgumentBegin
  /\ Unmatched(StreamOf(i), OpenOf(i))
UnmatchedInput ==
  /\ Len(tokens) > 3
  /\ SubSeq(tokens, 1, 3) = <<BangPrefix, BangIdentifier("!"), ArgumentBegin>>
  /\ Unmatched(tokens, 3)

\* C12: when the ArgumentBegin of a grouping bang is never matched, the call
\* returns LexerUnexpectedEndOfInput and builds no Grouping: it neither starts
\* a sub-parse nor reaches the continuation step.
C12_UnmatchedGroupingFails ==
  /\ \A i \in 1..Len(stack) :
       (stack[i].pc \in {"group", "cont", "rhs", "ret"} /\ UnmatchedGrouping(i)) =>
         /\ stack[i].pc = "ret"
         /\ stack[i].lhs = NoResult
         /\ ~stack[i].val.ok
         /\ stack[i].val.val[1] = "LexerUnexpectedEndOfInput"
         /\ streams[stack[i].sid].pos = Len(StreamOf(i))
  /\ (Stopped /\ UnmatchedInput) =>
       /\ status = "done"
       /\ ~result.ok
       /\ result.val[1] = "LexerUnexpectedEndOfInput"

\* A grouping with a predicate inside and no ArgumentEnd ended the parse.
C12_Witness ==
  /\ status = "done"
  /\ tokens = <<BangPrefix, BangIdentifier("!"), ArgumentBegin, BangPrefix,
                BangIdentifier("c"), InputEnd>>
  /\ ~result.ok
  /\ result.val[1] = "LexerUnexpectedEndOfInput"

\* ------------------------------------------------------------------ C13
\* The right-hand side of a combinator is parsed on its caller's iterator, from
\* where the caller stopped; a grouping is parsed on a new iterator, over the
\* vector of clones the scan collected.
CalleeCursors ==
  \A i \in 1..(Len(stack) - 1) :
    /\ stack[i].pc \in {"rhs", "group"}
    /\ stack[i].pc = "rhs" =>
         /\ stack[i + 1].sid = stack[i].sid
         /\ stack[i + 1].start >= stack[i].start + 3
    /\ stack[i].pc = "group" =>
         /\ stack[i + 1].sid = stack[i].sid + 1
         /\ stack[i + 1].start = 0
         /\ streams[stack[i + 1].sid].toks = stack[i].group

\* Input token k was returned once by the outermost iterator if that iterator
\* has passed it, and then once by the iterator of each group around it that
\* was parsed so far, outermost first.
ReadOncePerIterator ==
  \A k \in DOMAIN reads :
    /\ reads[k] = [j \in 1..Len(reads[k]) |-> j]
    /\ status # "panicked" => ((reads[k] # <<>>) <=> (k <= streams[1].pos))

\* No iterator steps back.
CursorForward ==
  \A s \in DOMAIN streams \cap DOMAIN streams' :
    /\ streams'[s].toks = streams[s].toks
    /\ streams'[s].pos >= streams[s].pos

FallbackMnemonics == Mnemonics \ {"t", "f", "!"}

\* Frame i was called on a BangPrefix and the identifier of such a mnemonic.
FallsBack(i) ==
  /\ stack[i].start + 2 <= Len(StreamOf(i))
  /\ StreamOf(i)[stack[i].start + 1] = BangPrefix
  /\ StreamOf(i)[stack[i].start + 2].k = "BangIdentifier"
  /\ StreamOf(i)[stack[i].start + 2].v \in FallbackMnemonics

C15_ThreeTokensBeforeContinuation ==
  \A i \in 1..Len(stack) :
    stack[i].pc = "cont" => streams[stack[i].sid].pos - stack[i].start >= 3

\* ------------------------------------------------------------------ C16
\* The tokens frame i had before it when it was called.
RemainingAtEntry(i) == Len(StreamOf(i)) - stack[i].start

\* Every nested call starts with fewer tokens before it than its caller started
\* with, so the stack is never deeper than the input is long.
CallsDescend ==
  /\ \A i \in 1..(Len(stack) - 1) :
       /\ RemainingAtEntry(i + 1) < RemainingAtEntry(i)
       /\ RemainingAtEntry(i + 1) >= 0
  /\ Len(stack) <= Len(tokens)

\* C16: every recursive call is made on strictly fewer remaining tokens than
\* its caller started with, the recursion depth is bounded by the length of
\* the input, and the parse, the scan for the closing brace included, ends.
C16_Terminates == []CallsDescend /\ <>Stopped

\* A parse with a grouping nested in a grouping has ended, the scans with it.
C16_Witness ==
  /\ status = "done"
  /\ tokens \in GroupAloneInputs
  /\ \E k \in DOMAIN reads : Len(reads[k]) = 3

\* ======================================================== seiri-watcher
\* No parse under way.
ParserIdle ==
  /\ tokens = <<>>
  /\ streams = <<>>
  /\ stack = <<>>
  /\ result = NoResult
  /\ status = "idle"
  /\ reads = <<>>

\* ------------------------------------------------------------- process
Paths == {"a.flac", "b.mp3", "notes.txt"}
\* What paths::new_track_checked and paths::move_new_track can return.
TrackOutcomes == {"Ok", "UnsupportedFile", "FileIOError", "MissingRequiredTag", "Other"}
MoveOutcomes == {"Ok", "UnableToMove", "UnableToCreateDirectory", "Other"}

\* An activation of process(path, config, conn, retry).
ProcessFrame(path, retry) ==
  [pc |-> "track", path |-> path, retry |-> retry, track |-> "", lib |-> "",
   moved |-> "", calls |-> 0]
ProcessTop == pstack[Len(pstack)]
Running(pc) == pstack # <<>> /\ ProcessTop.pc = pc
SetProcessTop(f) == [pstack EXCEPT ![Len(pstack)] = f]
\* eprintln!("CODE::...") and the end of the activation f.
Report(f, code) ==
  /\ out' = Append(out, [code |-> code, path |-> f.path])
  /\ pstack' = SetProcessTop([f EXCEPT !.pc = "done"])

RetryArgumentKept(retry) == retry

\* The retry argument of the recursive call: process(path, config, conn, false).
RetryArgument(retry) == FALSE

\* Err(_) if retry => process(path, config, conn, false)
Recurse(f) ==
  /\ pstack' = Append(SetProcessTop([f EXCEPT !.pc = "called", !.calls = @ + 1]),
                      ProcessFrame(f.path, RetryArgument(f.retry)))
  /\ UNCHANGED out

ProcessInit ==
  /\ \E path \in Paths, retry \in BOOLEAN : pstack = <<ProcessFrame(path, retry)>>
  /\ out = <<>>
  /\ added = 0
  /\ ParserIdle
  /\ WatchdogIdle

\* let track = paths::new_track_checked(path, None);
NewTrackChecked ==
  /\ Running("track")
  /\ \E t \in TrackOutcomes :
       pstack' = SetProcessTop([ProcessTop EXCEPT !.pc = "ensure", !.track = t])
  /\ UNCHANGED <<out, added, parserVars, watchdogVars>>

\* match paths::ensure_music_folder(..) and, for Ok, match track { .. } up to
\* the next call.
EnsureMusicFolder ==
  /\ Running("ensure")
  /\ \E l \in {"Ok", "Err"} :
       LET f == [ProcessTop EXCEPT !.lib = l]
       IN  CASE l = "Err" -> Report(f, "ELIBRARYNOTFOUND")
             [] l = "Ok" /\ f.track = "Ok" ->
                  pstack' = SetProcessTop([f EXCEPT !.pc = "move"]) /\ UNCHANGED out
             [] l = "Ok" /\ f.track # "Ok" /\ f.retry -> Recurse(f)
             [] l = "Ok" /\ f.track = "UnsupportedFile" /\ ~f.retry ->
                  pstack' = SetProcessTop([f EXCEPT !.pc = "nontrack"]) /\ UNCHANGED out
             [] l = "Ok" /\ f.track = "FileIOError" /\ ~f.retry -> Report(f, "ETRACK")
             [] l = "Ok" /\ f.track = "MissingRequiredTag" /\ ~f.retry ->
                  Report(f, "EMISSINGTAG")
             [] l = "Ok" /\ f.track = "Other" /\ ~f.retry -> Report(f, "ETRACK")
  /\ UNCHANGED <<added, parserVars, watchdogVars>>

\* match paths::move_new_track(&track, ..) { .. }
MoveNewTrack ==
  /\ Running("move")
  /\ \E m \in MoveOutcomes :
       LET f == [ProcessTop EXCEPT !.moved = m]
       IN  CASE m = "Ok" -> Report(f, "TRACKADDED") /\ added' = added + 1
             [] m # "Ok" /\ f.retry -> Recurse(f) /\ UNCHANGED added
             [] m = "UnableToMove" /\ ~f.retry ->
                  Report(f, "ETRACKMOVE") /\ UNCHANGED added
             [] m = "UnableToCreateDirectory" /\ ~f.retry ->
                  Report(f, "ECREATEDIRECTORY") /\ UNCHANGED added
             [] m = "Other" /\ ~f.retry -> Report(f, "ETRACK") /\ UNCHANGED added
  /\ UNCHANGED <<parserVars, watchdogVars>>

\* match paths::move_non_track(&file_name, ..) { .. }
MoveNonTrack ==
  /\ Running("nontrack")
  /\ \E ok \in BOOLEAN :
       Report(ProcessTop, IF ok THEN "ENONTRACK" ELSE "ETRACKMOVE")
  /\ UNCHANGED <<added, parserVars, watchdogVars>>

\* process returns, to the activation that called it or to the watcher.
ProcessReturn ==
  /\ Running("done")
  /\ pstack' = IF Len(pstack) = 1
               THEN SetProcessTop([ProcessTop EXCEPT !.pc = "returned"])
               ELSE [SubSeq(pstack, 1, Len(pstack) - 1) EXCEPT
                       ![Len(pstack) - 1].pc = "done"]
  /\ UNCHANGED <<out, added, parserVars, watchdogVars>>

ProcessNext ==
  \/ NewTrackChecked
  \/ EnsureMusicFolder
  \/ MoveNewTrack
  \/ MoveNonTrack
  \/ ProcessReturn

SpecProcess == ProcessInit /\ [][ProcessNext]_vars

\* ------------------------------------------------------------------ C17
\* The activation f found the library and then failed to read or move the track.
Failed(f) == f.lib = "Ok" /\ (f.track \notin {"", "Ok"} \/ f.moved \notin {"", "Ok"})

\* C17: a call process(path, retry = true) makes at most two attempts: a failed
\* read or move on the first is followed by exactly one call with retry =
\* false, a failure there is reported and not retried, add_track is called at
\* most once, one outcome message is printed per top-level call, and a missing
\* library folder is reported without a retry.
C17_AtMostOneRetry ==
  (pstack # <<>> /\ pstack[1].retry) =>
    /\ Len(pstack) <= 2
    /\ \A i \in 2..Len(pstack) : ~pstack[i].retry
    /\ \A i \in 1..Len(pstack) :
         LET f == pstack[i]
         IN  /\ f.calls = IF f.retry /\ Failed(f) THEN 1 ELSE 0
             /\ f.pc = "called" <=> i < Len(pstack)
             /\ f.lib = "Err" =>
                  /\ f.pc \in {"done", "returned"}
                  /\ out = <<[code |-> "ELIBRARYNOTFOUND", path |-> f.path]>>
    /\ added <= 1
    /\ Len(out) <= 1
    /\ (added = 1) <=> (out # <<>> /\ out[1].code = "TRACKADDED")
    /\ (out # <<>>) <=> ProcessTop.pc \in {"done", "returned"}
    /\ pstack[1].pc = "returned" => Len(out) = 1

\* Both attempts failed to move the track; the second one reported it.
C17_Witness ==
  /\ pstack # <<>>
  /\ pstack[1].pc = "returned"
  /\ pstack[1].retry
  /\ pstack[1].calls = 1
  /\ pstack[1].moved = "UnableToMove"
  /\ out = <<[code |-> "ETRACKMOVE", path |-> "a.flac"]>>

\* ------------------------------------------------------------ watchdog
\* Channels are numbered as unbounded() creates them; the model stops creating
\* them after MaxChannels.
MaxChannels == 4

\* The watchdog thread at pc; phase tells the wait before the loop from the
\* wait inside it, cause what made the thread panic.
Watchdog(pc, phase) == [pc |-> pc, phase |-> phase, cause |-> ""]
Panicked(cause) == [pc |-> "panicked", phase |-> wd.phase, cause |-> cause]

\* get_watcher_thread(rx).unwrap(): a new watcher thread owns the receiver rx.
Spawned(rx) == rxAlive \cup {rx}

WatchdogInit ==
  /\ wd = Watchdog("new", "start")
  /\ tx = 0
  /\ chans = 0
  /\ rxAlive = {}
  /\ mail = {}
  /\ folder \in BOOLEAN
  /\ ParserIdle
  /\ ProcessIdle

\* let (tx, rx) = unbounded(); let config = config::get_config();
NewChannel ==
  /\ wd.pc = "new"
  /\ chans' = chans + 1
  /\ tx' = chans + 1
  /\ wd' = Watchdog("wait", "start")
  /\ UNCHANGED <<rxAlive, mail, folder, parserVars, processVars>>

\* wait_for_watch_root_available: the loop ends when ensure_music_folder is Ok.
WaitForWatchRoot ==
  /\ wd.pc = "wait"
  /\ folder
  /\ wd' = Watchdog("ensured", wd.phase)
  /\ UNCHANGED <<tx, chans, rxAlive, mail, folder, parserVars, processVars>>

\* paths::ensure_music_folder(folder).unwrap() at the end of
\* wait_for_watch_root_available, then what follows the wait: before the loop,
\* the first watcher thread is spawned.
WaitUnwrap ==
  /\ wd.pc = "ensured"
  /\ IF ~folder
     THEN wd' = Panicked("ensure_music_folder") /\ UNCHANGED rxAlive
     ELSE IF wd.phase = "start"
          THEN wd' = Watchdog("park", "loop") /\ rxAlive' = Spawned(tx)
          ELSE wd' = Watchdog("exit", "loop") /\ UNCHANGED rxAlive
  /\ UNCHANGED <<tx, chans, mail, folder, parserVars, processVars>>

\* thread::park_timeout(wait_time); if tx.send(WatchStatus::KeepAlive).is_err()
\* { new channel, new watcher thread }
KeepAlive ==
  /\ wd.pc = "park"
  /\ IF tx \in rxAlive
     THEN UNCHANGED <<tx, chans, rxAlive>>
     ELSE /\ chans < MaxChannels
          /\ chans' = chans + 1
          /\ tx' = chans + 1
          /\ rxAlive' = Spawned(chans + 1)
  /\ wd' = Watchdog("check", "loop")
  /\ UNCHANGED <<mail, folder, parserVars, processVars>>

\* let music_folder = paths::ensure_music_folder(..); if music_folder.is_err()
CheckMusicFolder ==
  /\ wd.pc = "check"
  /\ wd' = IF folder THEN Watchdog("park", "loop") ELSE Watchdog("wait", "loop")
  /\ UNCHANGED <<tx, chans, rxAlive, mail, folder, parserVars, processVars>>

\* tx.send(WatchStatus::Exit).unwrap(): Err when the receiver is gone.
SendExit ==
  IF tx \in rxAlive
  THEN [panic |-> FALSE, mail |-> mail \cup {tx}]
  ELSE [panic |-> TRUE, mail |-> mail]

\* let (new_tx, rx) = unbounded(); tx.send(WatchStatus::Exit).unwrap();
\* tx = new_tx.clone(); _watch_thread = get_watcher_thread(rx).unwrap();
RestartWatcher ==
  /\ wd.pc = "exit"
  /\ chans < MaxChannels
  /\ chans' = chans + 1
  /\ mail' = SendExit.mail
  /\ IF SendExit.panic
     THEN wd' = Panicked("send") /\ UNCHANGED <<tx, rxAlive>>
     ELSE /\ wd' = Watchdog("park", "loop")
          /\ tx' = chans + 1
          /\ rxAlive' = Spawned(chans + 1)
  /\ UNCHANGED <<folder, parserVars, processVars>>

\* A watcher thread ends (begin_watch returns or panics) and drops its receiver.
WatcherDies ==
  /\ \E c \in rxAlive :
       /\ rxAlive' = rxAlive \ {c}
       /\ mail' = mail \ {c}
  /\ UNCHANGED <<wd, tx, chans, folder, parserVars, processVars>>

\* The music folder goes away or comes back.
FolderChanges ==
  /\ folder' = ~folder
  /\ UNCHANGED <<wd, tx, chans, rxAlive, mail, parserVars, processVars>>

WatchdogNext ==
  \/ NewChannel
  \/ WaitForWatchRoot
  \/ WaitUnwrap
  \/ KeepAlive
  \/ CheckMusicFolder
  \/ RestartWatcher
  \/ WatcherDies
  \/ FolderChanges

SpecWatchdog == WatchdogInit /\ [][WatchdogNext]_vars

\* ------------------------------------------------------------------ C18
\* C18: whenever the watcher thread dies, also while the watchdog waits for
\* the music folder, the watchdog thread does not abort on its send, and in the
\* loop its sender belongs to the newest channel, the one whose receiver went
\* to the most recently spawned watcher thread.
C18_WatchdogSurvivesWatcherDeath ==
  /\ ~(wd.pc = "panicked" /\ wd.cause = "send")
  /\ (wd.phase = "loop" /\ wd.pc # "panicked") => tx = chans

====
